---- MODULE Spec2Model ----
(***************************************************************************)
(* fview: the listing pipeline of src/src/config.rs and the truncation     *)
(* helpers of src/src/string_ext.rs.                                       *)
(*                                                                         *)
(* Text is a sequence of Unicode code points.  str::len and the range      *)
(* index &s[..k] work on UTF-8 bytes, so every code point carries its      *)
(* encoded width (Utf8Len).  Option<T> is a set with at most one element.  *)
(* The rows are modelled as written to a sink without colour support       *)
(* (ColoredString prints its input unchanged), with canonicalize = false.  *)
(***************************************************************************)
EXTENDS Integers, Sequences, FiniteSets

VARIABLES fs, parent, config, iter, pc, stdout, stderr, emitted, arg, ret

vars == <<fs, parent, config, iter, pc, stdout, stderr, emitted, arg, ret>>

(***************************************************************************)
(* Bounds of the model.                                                    *)
(***************************************************************************)
\* creation times range over -1..MaxTime seconds since the Unix epoch
MaxTime == 1
\* the largest --max-depth given on the command line
MaxDepthArg == 3
\* mode words range over 0 .. 2^MaxModeBits - 1
MaxModeBits == 11
\* strings given to truncate_ellipsis have at most MaxStrLen code points
MaxStrLen == 4
\* max_len given to truncate_ellipsis ranges over 0..MaxMaxLen
MaxMaxLen == 5
\* file names given to render_as_row have at most 20 + MaxNameOver code points
MaxNameOver == 4

(***************************************************************************)
(* Option, text, UTF-8.                                                    *)
(***************************************************************************)
None == {}

Some(x) == {x}

unwrap(o) == CHOOSE x \in o : TRUE

unwrap_or(o, d) == IF o = None THEN d ELSE unwrap(o)

SP == 32

NL == 10

DASH == 45

DOT == 46

ELLIPSIS == 8230

ESC == 27

\* the number of bytes of the UTF-8 encoding of code point c
Utf8Len(c) == IF c < 128 THEN 1 ELSE IF c < 2048 THEN 2 ELSE IF c < 65536 THEN 3 ELSE 4

RECURSIVE len(_)
\* str::len: the length in bytes
len(s) == IF s = <<>> THEN 0 ELSE Utf8Len(Head(s)) + len(Tail(s))

saturating_sub(a, b) == IF a > b THEN a - b ELSE 0

Ok(v) == [ok |-> TRUE, val |-> v]

Panic == [ok |-> FALSE, val |-> <<>>]

\* &s[..k]: the prefix of k bytes; panics when k is past the end or inside a code point
slice_to(s, k) ==
    LET cuts == {n \in 0..Len(s) : len(SubSeq(s, 1, n)) = k}
    IN  IF cuts = {} THEN Panic ELSE Ok(SubSeq(s, 1, unwrap(cuts)))

\* a truncation that keeps max_len code points and appends the marker beyond them
truncate_ellipsis_keeps_max_len(s, max_len) ==
    IF len(s) > max_len
    THEN LET p == slice_to(s, max_len)
         IN  IF p.ok THEN Ok(p.val \o <<ELLIPSIS>>) ELSE Panic
    ELSE Ok(s)

\* impl StrExt for &str
truncate_ellipsis(s, max_len) ==
    IF len(s) > max_len
    THEN LET p == slice_to(s, saturating_sub(max_len, 1))
         IN  IF p.ok THEN Ok(p.val \o <<ELLIPSIS>>) ELSE Panic
    ELSE Ok(s)

\* impl StringExt for String
String_truncate_ellipsis(s, max_len) ==
    IF len(s) > max_len
    THEN LET p == slice_to(s, saturating_sub(max_len, 1))
         IN  IF p.ok THEN Ok(p.val \o <<ELLIPSIS>>) ELSE Panic
    ELSE Ok(s)

Spaces(n) == [i \in 1..n |-> SP]

\* {:<w$}: left-aligned, padded to w code points
PadRight(s, w) == IF Len(s) >= w THEN s ELSE s \o Spaces(w - Len(s))

\* {:>w$}: right-aligned, padded to w code points
PadLeft(s, w) == IF Len(s) >= w THEN s ELSE Spaces(w - Len(s)) \o s

RECURSIVE to_string(_)
\* u64 Display
to_string(n) == IF n < 10 THEN <<48 + n>> ELSE to_string(n \div 10) \o <<48 + (n % 10)>>

RECURSIVE Pow(_, _)
Pow(b, e) == IF e = 0 THEN 1 ELSE b * Pow(b, e - 1)

(***************************************************************************)
(* EntryMetadata accessors (config.rs).  An entry is a record               *)
(*   name       the bytes of the file name, as code points                  *)
(*   utf8       whether OsStr::to_str succeeds on the name                   *)
(*   is_dir, is_symlink, is_file   the three type tests of get_file_icon     *)
(*   stat       whether path().metadata() succeeds                          *)
(*   created    Option: the creation time in seconds since the Unix epoch    *)
(*   mode, size the mode word and byte length of the metadata                *)
(***************************************************************************)
UNIX_EPOCH == 0

name_width == 35

date_width == 20

perm_width == 12

size_width == 10

Units == {"Bytes", "KB", "MB", "GB", "TB"}

normalize_size_unit(unit) ==
    CASE unit = "Bytes" -> <<98>>
      [] unit = "KB" -> <<107, 105, 98>>
      [] unit = "MB" -> <<109, 105, 98>>
      [] unit = "GB" -> <<103, 105, 98>>
      [] unit = "TB" -> <<116, 105, 98>>

get_file_icon(entry) ==
    IF entry.is_dir THEN <<ESC, 91, 51, 52, 109, 62675, ESC, 91, 48, 109>>
    ELSE IF entry.is_symlink THEN <<ESC, 91, 51, 54, 109, 62593, ESC, 91, 48, 109>>
    ELSE IF entry.is_file THEN <<ESC, 91, 51, 50, 109, 61787, ESC, 91, 48, 109>>
    ELSE <<>>

\* Result<String, _>: Err when the name is not UTF-8
get_file_name(entry) ==
    IF ~entry.utf8 THEN [ok |-> FALSE, val |-> <<>>]
    ELSE Ok(get_file_icon(entry) \o <<SP>> \o entry.name)

is_hidden(entry) ==
    IF entry.utf8 THEN Len(entry.name) > 0 /\ entry.name[1] = DOT ELSE FALSE

TwoDigits(n) == <<48 + (n \div 10), 48 + (n % 10)>>

\* formatl("%x %X") of the local time, for a clock on UTC within a minute of the epoch
formatl(t) ==
    IF t >= 0
    THEN <<48, 49, 47, 48, 49, 47, 55, 48, SP, 48, 48, 58, 48, 48, 58>> \o TwoDigits(t)
    ELSE <<49, 50, 47, 51, 49, 47, 54, 57, SP, 50, 51, 58, 53, 57, 58>> \o TwoDigits(60 + t)

get_file_creation_date(entry) ==
    IF ~entry.stat THEN None
    ELSE IF entry.created = None THEN None
    ELSE Some(formatl(unwrap(entry.created)))

to_rwx(perms, shift) ==
    LET bits == (perms \div Pow(2, shift)) % 8
    IN  << IF (bits \div 4) % 2 # 0 THEN 114 ELSE DASH,
           IF (bits \div 2) % 2 # 0 THEN 119 ELSE DASH,
           IF bits % 2 # 0 THEN 120 ELSE DASH >>

\* the three groups rendered from the wrong ends of the mode word
get_file_permissions_swapped(entry) ==
    IF ~entry.stat THEN None
    ELSE LET perms == entry.mode % 512
         IN  Some(to_rwx(perms, 0) \o to_rwx(perms, 3) \o to_rwx(perms, 6))

get_file_permissions(entry) ==
    IF ~entry.stat THEN None
    ELSE LET perms == entry.mode % 512
             owner == to_rwx(perms, 6)
             group == to_rwx(perms, 3)
             others == to_rwx(perms, 0)
         IN  Some(owner \o group \o others)

get_file_size(entry, unit) ==
    IF ~entry.stat THEN None
    ELSE LET size_in_bytes == entry.size
             size == CASE unit = "Bytes" -> size_in_bytes
                       [] unit = "KB" -> size_in_bytes \div 1024
                       [] unit = "MB" -> size_in_bytes \div (1024 * 1024)
                       [] unit = "GB" -> size_in_bytes \div (1024 * 1024 * 1024)
                       [] unit = "TB" -> size_in_bytes \div (1024 * 1024 * 1024 * 1024)
         IN  Some(to_string(size) \o <<SP>> \o normalize_size_unit(unit))

(***************************************************************************)
(* Row and table renderers.  A rendering ends "ok" with its text, "exit"    *)
(* when std::process::exit(1) was called, or "panic".                       *)
(***************************************************************************)
Rendered(text) == [status |-> "ok", text |-> text]

Exited == [status |-> "exit", text |-> <<>>]

Panicked == [status |-> "panic", text |-> <<>>]

render_as_row(entry, unit) ==
    LET name == get_file_name(entry)
    IN  IF ~name.ok THEN Exited
        ELSE
        LET creation_date == unwrap_or(get_file_creation_date(entry), <<DASH>>)
            permissions == unwrap_or(get_file_permissions(entry), <<DASH>>)
            size == unwrap_or(get_file_size(entry, unit), <<DASH>>)
            n == truncate_ellipsis(name.val, name_width - 1)
            d == String_truncate_ellipsis(creation_date, date_width - 1)
            p == String_truncate_ellipsis(permissions, perm_width - 1)
        IN  IF ~n.ok \/ ~d.ok \/ ~p.ok THEN Panicked
            ELSE Rendered(PadRight(n.val, name_width) \o <<SP>>
                          \o PadRight(d.val, date_width) \o <<SP>>
                          \o PadRight(p.val, perm_width) \o <<SP>>
                          \o PadLeft(size, size_width))

RECURSIVE render_as_table(_, _)
\* one row and a line feed per entry; the first failing row ends the rendering
render_as_table(entries, unit) ==
    IF entries = <<>> THEN Rendered(<<>>)
    ELSE LET row == render_as_row(Head(entries), unit)
         IN  IF row.status # "ok" THEN row
             ELSE LET rest == render_as_table(Tail(entries), unit)
                  IN  IF rest.status # "ok" THEN rest
                      ELSE Rendered(row.text \o <<NL>> \o rest.text)

RECURSIVE Lines(_)
\* the lines of a text that ends with a line feed
Lines(text) ==
    IF text = <<>> THEN <<>>
    ELSE LET k == CHOOSE i \in 1..Len(text) :
                      text[i] = NL /\ \A j \in 1..(i - 1) : text[j] # NL
         IN  <<SubSeq(text, 1, k - 1)>> \o Lines(SubSeq(text, k + 1, Len(text)))

\* println!: the text and a line feed, as lines on the stream
println(out, text) == out \o Lines(text \o <<NL>>)

(***************************************************************************)
(* The directory tree.  Node 0 is the root given on the command line; the   *)
(* nodes of parent's domain are the entries beneath it, numbered in the     *)
(* order read_dir lists them, a directory before its contents.  fs[n] is    *)
(* the entry of node n, with one more field:                                *)
(*   readable   whether read_dir succeeds on it (directories)               *)
(* The contents of an unreadable directory are not part of the tree.        *)
(***************************************************************************)
Shapes == { <<0, 1, 0, 0>>, <<0, 1, 2, 0>> }

Nodes == DOMAIN parent

\* creation times in seconds since the Unix epoch, one of them before it
Times == -1..MaxTime

RECURSIVE Depth(_)
Depth(n) == IF n = 0 THEN 0 ELSE 1 + Depth(parent[n])

RECURSIVE Ancestors(_)
\* the nodes strictly between the root and n, and n itself
Ancestors(n) == IF n = 0 THEN {} ELSE {n} \cup Ancestors(parent[n])

RECURSIVE SeqOf(_)
\* a set of nodes in read_dir order
SeqOf(S) == IF S = {} THEN <<>>
            ELSE LET m == CHOOSE x \in S : \A y \in S : x <= y
                 IN  <<m>> \o SeqOf(S \ {m})

read_dir(p) == SeqOf({n \in Nodes : parent[n] = p})

(***************************************************************************)
(* view_files: the walker (WalkDir with min_depth 1, max_depth, sort_by,    *)
(* filter_entry) and the loop over what it yields.                          *)
(***************************************************************************)
DefaultConfig ==
    [max_depth |-> None, show_hidden |-> FALSE, table |-> FALSE,
     unit |-> Some("Bytes"), reversed |-> FALSE]

depth == unwrap_or(config.max_depth, 1)

unit == unwrap_or(config.unit, "Bytes")

\* Ord::cmp
compare(x, y) == IF x < y THEN "Less" ELSE IF x > y THEN "Greater" ELSE "Equal"

\* a key that puts an entry without creation time after every other entry
created_key_none_newest(n) ==
    IF fs[n].stat /\ fs[n].created # None THEN unwrap(fs[n].created) ELSE MaxTime + 1

\* a.metadata().ok().and_then(|m| m.created().ok()).unwrap_or(UNIX_EPOCH)
created_key(n) ==
    unwrap_or(IF fs[n].stat THEN fs[n].created ELSE None, UNIX_EPOCH)

\* the closure given to sort_by
sort_cmp(a, b, reversed) ==
    LET a_created == created_key(a)
        b_created == created_key(b)
    IN  IF reversed THEN compare(b_created, a_created)
        ELSE compare(a_created, b_created)

RECURSIVE InsertSorted(_, _, _)
\* x after every element that does not compare Greater than it
InsertSorted(x, sorted, reversed) ==
    IF sorted = <<>> THEN <<x>>
    ELSE IF sort_cmp(Head(sorted), x, reversed) = "Greater" THEN <<x>> \o sorted
    ELSE <<Head(sorted)>> \o InsertSorted(x, Tail(sorted), reversed)

RECURSIVE StableSort(_, _, _)
\* slice::sort_by, a stable sort: the elements of list inserted in turn into acc
StableSort(list, acc, reversed) ==
    IF list = <<>> THEN acc
    ELSE StableSort(Tail(list), InsertSorted(Head(list), acc, reversed), reversed)

Reverse(s) == [i \in 1..Len(s) |-> s[Len(s) + 1 - i]]

\* an ascending sort whose result is reversed when reversed is set
sort_by_then_reverse(list) ==
    IF config.reversed THEN Reverse(StableSort(list, <<>>, FALSE))
    ELSE StableSort(list, <<>>, FALSE)

\* the directory's entries in the order of the closure
sort_by(list) == StableSort(list, <<>>, config.reversed)

Item(ok, n) == [ok |-> ok, n |-> n]

RECURSIVE Visit(_, _)
RECURSIVE WalkList(_, _)

\* a filter applied to the rows only: a rejected directory is still descended into
Visit_filter_rows_only(n, d) ==
    (IF config.show_hidden \/ ~is_hidden(fs[n]) THEN <<Item(TRUE, n)>> ELSE <<>>)
    \o (IF fs[n].is_dir /\ d < depth
        THEN IF ~fs[n].readable THEN <<Item(FALSE, n)>>
             ELSE WalkList(sort_by(read_dir(n)), d + 1)
        ELSE <<>>)

\* what the filtered walker yields for node n at depth d <= depth and beneath it:
\* nothing when the predicate rejects n; else n, then the error of reading it or
\* its contents, unless n is at the depth bound
Visit(n, d) ==
    IF ~(config.show_hidden \/ ~is_hidden(fs[n])) THEN <<>>
    ELSE <<Item(TRUE, n)>>
         \o (IF fs[n].is_dir /\ d < depth
             THEN IF ~fs[n].readable THEN <<Item(FALSE, n)>>
                  ELSE WalkList(sort_by(read_dir(n)), d + 1)
             ELSE <<>>)

WalkList(list, d) ==
    IF list = <<>> THEN <<>> ELSE Visit(Head(list), d) \o WalkList(Tail(list), d)

\* the sequence the iterator `entries` yields; the variable iter is what is left of it
entries == WalkList(sort_by(read_dir(0)), 1)

\* eprintln! of a walker error, and of the name error before exit(1)
WalkError(n) == [what |-> "walkdir", n |-> n]

NameError(n) == [what |-> "Failed to convert file name to string", n |-> n]

\* the end of a loop body that rendered node n as r and prints r's text
Emit(n, r) ==
    IF r.status = "ok"
    THEN /\ stdout' = println(stdout, r.text)
         /\ emitted' = Append(emitted, n)
         /\ iter' = Tail(iter)
         /\ UNCHANGED <<pc, stderr>>
    ELSE /\ pc' = r.status
         /\ stderr' = IF r.status = "exit" THEN Append(stderr, NameError(n)) ELSE stderr
         /\ UNCHANGED <<stdout, emitted, iter>>

\* Err(e) => { eprintln!(...); continue; }
LoopErr ==
    /\ pc = "loop" /\ iter # <<>> /\ ~Head(iter).ok
    /\ stderr' = Append(stderr, WalkError(Head(iter).n))
    /\ iter' = Tail(iter)
    /\ UNCHANGED <<fs, parent, config, pc, stdout, emitted, arg, ret>>

\* println!("{}", render_as_row(entry, canonicalize, &unit))
LoopRow ==
    /\ pc = "loop" /\ iter # <<>> /\ Head(iter).ok /\ ~config.table
    /\ Emit(Head(iter).n, render_as_row(fs[Head(iter).n], unit))
    /\ UNCHANGED <<fs, parent, config, arg, ret>>

\* let table_entries = vec![entry]; println!("{}", render_as_table(...))
LoopTable ==
    /\ pc = "loop" /\ iter # <<>> /\ Head(iter).ok /\ config.table
    /\ Emit(Head(iter).n, render_as_table(<<fs[Head(iter).n]>>, unit))
    /\ UNCHANGED <<fs, parent, config, arg, ret>>

\* the iterator is exhausted and view_files returns
LoopEnd ==
    /\ pc = "loop" /\ iter = <<>>
    /\ pc' = "done"
    /\ UNCHANGED <<fs, parent, config, iter, stdout, stderr, emitted, arg, ret>>

(***************************************************************************)
(* Initial states of a listing: a tree and a configuration.                 *)
(***************************************************************************)
NodeName(n, dot) == (IF dot THEN <<DOT>> ELSE <<>>) \o <<96 + n>>

Leaves(shape) == {n \in DOMAIN shape : \A m \in DOMAIN shape : shape[m] # n}

\* a directory (readable or not) or a regular file
NodeEntry(n, dot, utf8, dir, readable, created) ==
    [name |-> NodeName(n, dot), utf8 |-> utf8,
     is_dir |-> dir, is_symlink |-> FALSE, is_file |-> ~dir,
     stat |-> TRUE, created |-> created,
     mode |-> IF dir THEN 493 ELSE 420, size |-> 512 * n,
     readable |-> readable]

MaxDepths == {None} \cup {Some(d) : d \in 1..MaxDepthArg}

\* trees that differ in names and in unreadable directories, listed in either mode
InitNames ==
    \E shape \in Shapes :
    \E dots \in [DOMAIN shape -> BOOLEAN], utf \in [DOMAIN shape -> BOOLEAN],
       bad \in SUBSET Leaves(shape) :
        /\ parent = shape
        /\ fs = [n \in DOMAIN shape |->
                    NodeEntry(n, dots[n], utf[n], n \notin Leaves(shape) \/ n \in bad,
                              n \notin bad, None)]
        /\ config \in [max_depth : MaxDepths, show_hidden : BOOLEAN, table : BOOLEAN,
                        unit : {Some("Bytes")}, reversed : {FALSE}]

\* trees that differ in creation times, listed in either direction
InitTimes ==
    \E shape \in Shapes :
    \E times \in [DOMAIN shape -> {None} \cup {Some(t) : t \in Times}] :
        /\ parent = shape
        /\ fs = [n \in DOMAIN shape |->
                    NodeEntry(n, FALSE, TRUE, n \notin Leaves(shape), TRUE, times[n])]
        /\ config \in [max_depth : MaxDepths, show_hidden : {FALSE}, table : {FALSE},
                        unit : {None}, reversed : BOOLEAN]

Init ==
    /\ InitNames \/ InitTimes
    /\ iter = entries
    /\ pc = "loop"
    /\ stdout = <<>>
    /\ stderr = <<>>
    /\ emitted = <<>>
    /\ arg = <<>>
    /\ ret = <<>>

Next == LoopErr \/ LoopRow \/ LoopTable \/ LoopEnd

Spec == Init /\ [][Next]_vars

(***************************************************************************)
(* The pure functions, applied to inputs drawn from bounded sets.           *)
(***************************************************************************)
Idle ==
    /\ fs = <<>> /\ parent = <<>> /\ config = DefaultConfig /\ iter = <<>>
    /\ stdout = <<>> /\ stderr = <<>> /\ emitted = <<>>

\* one, two and three byte code points: a, e-acute, the euro sign
Alphabet == {97, 233, 8364}

Strings == UNION {[1..n -> Alphabet] : n \in 0..MaxStrLen}

InitTrunc ==
    /\ Idle
    /\ arg \in [s : Strings, max_len : 0..MaxMaxLen]
    /\ ret = <<>>
    /\ pc = "call"

CallStrTruncate ==
    /\ pc = "call"
    /\ ret' = truncate_ellipsis(arg.s, arg.max_len)
    /\ pc' = "StrExt"
    /\ UNCHANGED <<fs, parent, config, iter, stdout, stderr, emitted, arg>>

CallStringTruncate ==
    /\ pc = "call"
    /\ ret' = String_truncate_ellipsis(arg.s, arg.max_len)
    /\ pc' = "StringExt"
    /\ UNCHANGED <<fs, parent, config, iter, stdout, stderr, emitted, arg>>

NextTrunc == CallStrTruncate \/ CallStringTruncate

SpecTrunc == InitTrunc /\ [][NextTrunc]_vars

\* a name of n code points, the m-th of them (if any) the multi-byte code point c
LongName(n, m, c) == [i \in 1..n |-> IF i = m THEN c ELSE 64 + i]

Kinds == {"dir", "symlink", "file", "other"}

\* what stat reports: nothing, no creation time, or all of it
Metas == { [stat |-> FALSE, created |-> None, unit |-> "Bytes"],
           [stat |-> TRUE, created |-> None, unit |-> "MB"],
           [stat |-> TRUE, created |-> Some(1), unit |-> "KB"] }

RowEntry(name, utf8, kind, meta) ==
    [name |-> name, utf8 |-> utf8,
     is_dir |-> kind = "dir", is_symlink |-> kind = "symlink", is_file |-> kind = "file",
     stat |-> meta.stat, created |-> meta.created, mode |-> 420, size |-> 1048576 + 1023]

InitRow ==
    /\ Idle
    /\ \E n \in 0..(name_width + MaxNameOver), c \in {233, 8364}, kind \in Kinds,
          utf8 \in BOOLEAN, meta \in Metas :
       \E m \in (IF c = 233 THEN 0..n ELSE 1..n) :
          arg = [entry |-> RowEntry(LongName(n, m, c), utf8, kind, meta),
                 unit |-> meta.unit]
    /\ ret = <<>>
    /\ pc = "call"

CallRenderAsRow ==
    /\ pc = "call"
    /\ ret' = render_as_row(arg.entry, arg.unit)
    /\ pc' = "returned"
    /\ UNCHANGED <<fs, parent, config, iter, stdout, stderr, emitted, arg>>

NextRow == CallRenderAsRow

SpecRow == InitRow /\ [][NextRow]_vars

InitPerm ==
    /\ Idle
    /\ arg \in [stat : BOOLEAN, mode : 0..(Pow(2, MaxModeBits) - 1)]
    /\ ret = <<>>
    /\ pc = "call"

CallGetFilePermissions ==
    /\ pc = "call"
    /\ ret' = get_file_permissions(arg)
    /\ pc' = "returned"
    /\ UNCHANGED <<fs, parent, config, iter, stdout, stderr, emitted, arg>>

NextPerm == CallGetFilePermissions

SpecPerm == InitPerm /\ [][NextPerm]_vars

(***************************************************************************)
(* Properties of a listing.                                                 *)
(***************************************************************************)
Finished == pc \in {"done", "exit", "panic"}

\* the name begins with '.', whatever its encoding
DotName(n) == Len(fs[n].name) > 0 /\ fs[n].name[1] = DOT

HiddenDir(n) == fs[n].is_dir /\ DotName(n)

\* n is within the depth bound and neither n nor a directory above it is hidden,
\* or hidden entries are shown
Listed(n) ==
    /\ Depth(n) <= depth
    /\ config.show_hidden \/ \A a \in Ancestors(n) : ~DotName(a)

Count(n) == Cardinality({i \in 1..Len(emitted) : emitted[i] = n})

\* the name column of a row
NameColumn(row) == SubSeq(row, 1, name_width)

\* C1: with show_hidden off there is no row for a directory whose name begins
\* with '.', none for any entry beneath one, and no walker error from beneath one
C1_HiddenSubtreePruned ==
    ~config.show_hidden =>
        /\ \A i \in 1..Len(emitted) : \A a \in Ancestors(emitted[i]) : ~HiddenDir(a)
        /\ \A i \in 1..Len(stderr) :
              stderr[i].what = "walkdir" =>
                  \A a \in Ancestors(stderr[i].n) : ~HiddenDir(a)

\* a finished listing that skipped the hidden directory 1 and its visible child 2,
\* which is within the depth bound, and printed other rows
C1_Witness ==
    /\ pc = "done" /\ ~config.show_hidden /\ depth >= 2
    /\ HiddenDir(1) /\ parent[2] = 1 /\ ~DotName(2) /\ fs[2].utf8
    /\ Len(emitted) >= 2

\* C2: no row is deeper than max depth, and when the listing ends every entry
\* within max depth that is not hidden away has exactly one row
C2_DepthBoundAndCompleteness ==
    /\ \A i \in 1..Len(emitted) : Depth(emitted[i]) >= 1 /\ Depth(emitted[i]) <= depth
    /\ Finished => \A n \in Nodes : Listed(n) => Count(n) = 1

\* the creation time as the claim orders it: absent is older than every time
OldestKey(n) == IF fs[n].created = None THEN -2 ELSE unwrap(fs[n].created)

\* the creation time with absent taken as the Unix epoch
EpochKey(n) == IF fs[n].created = None THEN 0 ELSE unwrap(fs[n].created)

\* C3 as stated: the whole sequence of rows is ordered by creation time, an absent
\* time being the oldest value
C3_WholeListingOrdered ==
    \A i, j \in 1..Len(emitted) :
        i < j => IF config.reversed
                 THEN OldestKey(emitted[i]) >= OldestKey(emitted[j])
                 ELSE OldestKey(emitted[i]) <= OldestKey(emitted[j])

\* C3 amended: the rows of the entries of one directory are ordered by creation
\* time, an absent time being the Unix epoch
C3_SiblingsOrdered ==
    \A i, j \in 1..Len(emitted) :
        (i < j /\ parent[emitted[i]] = parent[emitted[j]]) =>
            IF config.reversed
            THEN EpochKey(emitted[i]) >= EpochKey(emitted[j])
            ELSE EpochKey(emitted[i]) <= EpochKey(emitted[j])

\* an ascending listing of depth 2 or more in which an entry without creation time
\* was listed before a sibling that read_dir lists first and that has one
C3_Witness ==
    /\ pc = "done" /\ ~config.reversed /\ depth >= 2
    /\ \E i, j \in 1..Len(emitted) :
          /\ i < j /\ emitted[i] > emitted[j]
          /\ parent[emitted[i]] = parent[emitted[j]]
          /\ fs[emitted[i]].created = None /\ fs[emitted[j]].created = Some(1)

\* C4 as stated: any two rows with equal or both absent creation times are in
\* the order the traversal discovers their entries
C4_TiesInDiscoveryOrder ==
    \A i, j \in 1..Len(emitted) :
        (i < j /\ fs[emitted[i]].created = fs[emitted[j]].created) =>
            emitted[i] < emitted[j]

\* C4 amended: two rows of entries of one directory with equal or both absent
\* creation times are in the order read_dir lists them, in both directions
C4_SiblingTiesInReadDirOrder ==
    \A i, j \in 1..Len(emitted) :
        (/\ i < j
         /\ parent[emitted[i]] = parent[emitted[j]]
         /\ fs[emitted[i]].created = fs[emitted[j]].created) =>
            emitted[i] < emitted[j]

\* a reversed listing with two siblings of equal creation time and a third, older
\* sibling that was moved behind them
C4_Witness ==
    /\ pc = "done" /\ config.reversed
    /\ \E i, j, k \in 1..Len(emitted) :
          /\ i < j /\ j < k
          /\ parent[emitted[i]] = parent[emitted[j]]
          /\ parent[emitted[j]] = parent[emitted[k]]
          /\ fs[emitted[i]].created = fs[emitted[j]].created
          /\ fs[emitted[i]].created # None
          /\ emitted[k] < emitted[i]

\* C5: an entry whose name is not UTF-8 does not end the process, and when the
\* listing ends it has a row with "-" in the name column, as has every later entry
C5_PlaceholderForUnreadableName ==
    /\ pc # "exit"
    /\ pc = "done" =>
          \A n \in Nodes :
              (Listed(n) /\ ~fs[n].utf8)
                  => /\ Count(n) = 1
                     /\ \E l \in 1..Len(stdout) :
                           NameColumn(stdout[l]) = PadRight(<<DASH>>, name_width)

\* the directories whose read_dir fails under the walker
FailingDirs ==
    {n \in Nodes : Listed(n) /\ fs[n].is_dir /\ ~fs[n].readable /\ Depth(n) < depth}

ReportedDirs == {stderr[i].n : i \in {k \in 1..Len(stderr) : stderr[k].what = "walkdir"}}

\* C6: a listing in which the walker yielded errors ends normally, has reported each
\* error once and has exactly one row for every listed entry
C6_WalkErrorsSkipped ==
    (Finished /\ FailingDirs # {}) =>
        /\ pc = "done"
        /\ ReportedDirs = FailingDirs
        /\ Cardinality({k \in 1..Len(stderr) : stderr[k].what = "walkdir"})
              = Cardinality(FailingDirs)
        /\ \A n \in Nodes : Count(n) = IF Listed(n) THEN 1 ELSE 0

\* C9: in table mode the lines printed are the rows of the entries, in order, and
\* no other line
C9_TableLinesAreRows ==
    config.table =>
        /\ Len(stdout) = Len(emitted)
        /\ \A i \in 1..Len(emitted) :
              i <= Len(stdout)
                  => stdout[i] = render_as_row(fs[emitted[i]], unit).text

(***************************************************************************)
(* Properties of the row renderer and the pure functions.                   *)
(***************************************************************************)
\* the text given to the name column: the icon, a space, the file name
NameField(entry) == get_file_icon(entry) \o <<SP>> \o entry.name

RowReturned == pc = "returned" /\ arg.entry.utf8

C8_TruncateNeverFails ==
    pc \in {"StrExt", "StringExt"} => ret.ok /\ Len(ret.val) <= arg.max_len

Letter(i) == <<114, 119, 120>>[((i - 1) % 3) + 1]

\* C10: the permissions are 9 characters; the i-th is the letter of its place in
\* its group (r, w, x) iff bit 9 - i of the mode word is set, and '-' otherwise
C10_PermissionTriplets ==
    (pc = "returned" /\ arg.stat) =>
        /\ ret # None
        /\ Len(unwrap(ret)) = 9
        /\ \A i \in 1..9 :
              unwrap(ret)[i] = IF (arg.mode \div Pow(2, 9 - i)) % 2 = 1
                               THEN Letter(i) ELSE DASH

\* mode 0o1754, a bit above the low nine set, rendered as rwxr-xr--
C10_Witness ==
    /\ pc = "returned" /\ arg.stat /\ arg.mode = 512 + 492
    /\ ret = Some(<<114, 119, 120, 114, DASH, 120, 114, DASH, DASH>>)

====
